---------------------------- MODULE Spec2Model ----------------------------
(***************************************************************************)
(* Model of interpose_uname.c: a preloaded shared object whose uname()     *)
(* resolves the shadowed libc uname() through the dynamic loader, caches   *)
(* the pointer in a function-local static, delegates to it and, on         *)
(* success, overwrites the version field with "Johnny 5".                  *)
(*                                                                         *)
(* Every thread of the host process may call uname().  Each access to the  *)
(* static slot `original` (lines 13, 26/37, 40, 48) is a step of its own,  *)
(* so that all interleavings of the unsynchronised accesses are explored.  *)
(* A pointer-sized load or store is taken to be atomic.                    *)
(***************************************************************************)
EXTENDS Integers, Sequences, FiniteSets, TLC

(* ----------------------------- bounds ---------------------------------- *)

\* threads of the host process that may call uname()
MaxThreads == 2

\* invocations of uname() in a run, over all threads
MaxCalls == 2

\* nested activations of the interposer after which the stack is exhausted
MaxDepth == 2

\* largest capacity of the version field for which the copy is examined
MaxCap == 12

\* calls made to each of the two builds when they are run side by side
MaxPairCalls == 4

(* ------------------------ program constants ---------------------------- *)

\* #define _SYS_NAMELEN 256: the capacity of every field of struct utsname
SYS_NAMELEN == 256

\* the literal copied into the version field, as bytes: "Johnny 5"
JOHNNY5 == <<74, 111, 104, 110, 110, 121, 32, 53>>

\* __func__ inside uname()
FUNC == "uname"

\* the null pointer
NULL == "NULL"

\* address of the uname() exported by the system C library
LIBC_UNAME == "libc.uname"

\* address of the uname() defined by this file
INTERPOSER == "interposer.uname"

\* pseudo-handles of <dlfcn.h> and the handle of the opened system library
RTLD_NEXT == "RTLD_NEXT"
RTLD_DEFAULT == "RTLD_DEFAULT"
LIBC_HANDLE == "handle(libc.dylib)"

\* the address of the caller's struct utsname; each thread passes its own
BufPtr(t) == "&utsname" \o ToString(t)

\* no value yet (observations only)
None == "none"

Threads == 1 .. MaxThreads

VARIABLES
    APPLE,        \* build: TRUE iff __APPLE__ is defined (explicit dlopen + dlsym)
    libcOpens,    \* host: dlopen("libc.dylib") succeeds
    symFound,     \* host: the library that is searched exports uname
    original,     \* static func_t original
    pc,           \* per thread: the line it is about to execute
    name,         \* per thread: the argument of the invocation
    handle,       \* per thread: local `handle` (line 23)
    result,       \* per thread: local `result` (line 48)
    mem,          \* per thread: contents of the caller's struct utsname
    calls,        \* per thread: invocations started
    depth,        \* per thread: activations of the interposer on the stack
    stdout,       \* lines written to standard output
    stderr,       \* lines written to standard error
    proc,         \* "running", "exited" (exit()), "crashed" (fault)
    exitStatus,   \* <<>> while running, <<s>> after exit(s)
    dlopenCalls,  \* observation: dlopen() calls so far
    dlsymCalls,   \* observation: dlsym() calls so far
    openHandles,  \* library handles obtained from dlopen() and not closed
    queried,      \* observation: the handles dlsym() has been given so far
    stored,       \* observation: the values stored into `original` so far
    ptrsUsed,     \* observation: the pointers line 48 has called through so far
    obs,          \* observation, per thread, of the current/last invocation
    cp,           \* the copy of line 67 on a field of another capacity
    pair          \* the two builds run side by side on the same calls

vars == <<cp, pair, openHandles, queried, APPLE, libcOpens, symFound, original, pc, name, handle,
          result, mem, calls, depth, stdout, stderr, proc, exitStatus,
          dlopenCalls, dlsymCalls, stored, ptrsUsed, obs>>

(* --------------------------- struct utsname ---------------------------- *)

Fields == {"sysname", "nodename", "release", "version", "machine"}

\* a field holding the C string s, its terminator, and `fill` in the bytes after it
Field(s, fill) ==
    [i \in 1 .. SYS_NAMELEN |->
        IF i <= Len(s) THEN s[i] ELSE IF i = Len(s) + 1 THEN 0 ELSE fill]

\* what a caller's buffer holds before the call: bytes never written by anyone
Garbage == [f \in Fields |-> [i \in 1 .. SYS_NAMELEN |-> 170]]

\* "Darwin", "host", "11.4.0", "Darwin Kernel Version 11.4.0", "x86_64" (abridged)
DarwinRec ==
    [sysname  |-> Field(<<68, 97, 114, 119, 105, 110>>, 170),
     nodename |-> Field(<<104, 111, 115, 116>>, 170),
     release  |-> Field(<<49, 49, 46, 52, 46, 48>>, 170),
     version  |-> Field(<<68, 97, 114, 119, 105, 110, 32, 75, 101, 114, 110, 101, 108>>, 170),
     machine  |-> Field(<<120, 56, 54, 95, 54, 52>>, 170)]

\* a host whose version string is shorter than the literal: "Linux", "n", "3", "#1", "arm"
ShortRec ==
    [sysname  |-> Field(<<76, 105, 110, 117, 120>>, 85),
     nodename |-> Field(<<110>>, 85),
     release  |-> Field(<<51>>, 85),
     version  |-> Field(<<35, 49>>, 85),
     machine  |-> Field(<<97, 114, 109>>, 85)]

(* strncpy(dst, src, n): copies the bytes of src up to its terminator, at   *)
(* most n of them, and fills the rest of the first n bytes of dst with 0;   *)
(* no terminator is written when src has n or more bytes.                   *)
Strncpy(dst, src, n) ==
    [i \in 1 .. Len(dst) |->
        IF i <= n THEN (IF i <= Len(src) THEN src[i] ELSE 0) ELSE dst[i]]

(* ------------------------------ the host ------------------------------- *)

(* The loader's answers are properties of the process, fixed for a run:     *)
(* libcOpens and symFound are chosen once, in Init, and every dlopen() and  *)
(* dlsym() of the run is answered from them.  The interposer never loads    *)
(* or unloads an object other than the system library, which is loaded.     *)

(* The shadowed uname() of the system library, called on a structure that   *)
(* holds cur: the statuses it may return and what it leaves in the          *)
(* structure.  It succeeds with status 0 and all fields written, or fails   *)
(* with a non-zero status, the structure untouched or partly written.       *)
OriginalOutcomes(cur) ==
    {[status |-> 0, out |-> DarwinRec],
     [status |-> 0, out |-> ShortRec],
     [status |-> -1, out |-> cur],
     [status |-> 1, out |-> [cur EXCEPT !.sysname = DarwinRec.sysname]]}

\* dlopen("libc.dylib", RTLD_NOW): a handle of the library, or null
Dlopen == IF libcOpens THEN LIBC_HANDLE ELSE NULL

(* dlsym(h, "uname") as seen from the interposing module, which precedes    *)
(* the system library in the search order: RTLD_NEXT searches the objects   *)
(* after the caller, a library handle searches that library, RTLD_DEFAULT   *)
(* searches from the start of the order and finds the interposer itself,    *)
(* and a value that is no handle (a failed dlopen's null) finds nothing.    *)
Dlsym(h, sym) ==
    CASE h = RTLD_NEXT    -> IF symFound /\ sym = FUNC THEN LIBC_UNAME ELSE NULL
      [] h = LIBC_HANDLE  -> IF symFound /\ sym = FUNC THEN LIBC_UNAME ELSE NULL
      [] h = RTLD_DEFAULT -> IF sym = FUNC THEN INTERPOSER ELSE NULL
      [] OTHER            -> NULL

(* ------------------------------ uname() -------------------------------- *)

(* What is recorded of a thread's current (or last) invocation: whether     *)
(* line 13 found the slot set, how often the original was entered, through  *)
(* which pointer and with which argument, the status it returned and the    *)
(* structure it left, whether the invocation has returned and with what;    *)
(* how often the thread has resolved so far; whether the invocation's own   *)
(* dlsym() returned null; and whether the structure was still as the caller *)
(* passed it when the original was entered.                                 *)
NoObs == [seenSet |-> FALSE, delegated |-> 0, ptr |-> None, arg |-> None,
          ostatus |-> 0, omem |-> Garbage, returned |-> FALSE, ret |-> 0,
          resolved |-> 0, gotNull |-> FALSE, cleanAtCall |-> FALSE]

\* no copy under examination
NoCopy == [cap |-> 0, before |-> <<>>, region |-> <<>>, done |-> TRUE]

\* no side-by-side run
NoPair == [n |-> 0, st |-> <<>>]

\* the process as loaded: the slot null, no thread inside uname()
Loaded ==
    /\ original = NULL
    /\ pc = [t \in Threads |-> "idle"]
    /\ name = [t \in Threads |-> NULL]
    /\ handle = [t \in Threads |-> NULL]
    /\ result = [t \in Threads |-> 0]
    /\ mem = [t \in Threads |-> Garbage]
    /\ calls = [t \in Threads |-> 0]
    /\ depth = [t \in Threads |-> 0]
    /\ stdout = <<>>
    /\ stderr = <<>>
    /\ proc = "running"
    /\ exitStatus = <<>>
    /\ dlopenCalls = 0
    /\ dlsymCalls = 0
    /\ openHandles = 0
    /\ queried = {}
    /\ stored = {}
    /\ ptrsUsed = {}
    /\ obs = [t \in Threads |-> NoObs]

Init ==
    /\ APPLE \in BOOLEAN
    /\ libcOpens \in BOOLEAN
    /\ symFound \in BOOLEAN
    /\ Loaded
    /\ cp = NoCopy
    /\ pair = NoPair

RECURSIVE Sum(_, _)
Sum(f, S) == IF S = {} THEN 0 ELSE LET x == CHOOSE y \in S : TRUE
                                   IN f[x] + Sum(f, S \ {x})

\* invocations started so far
TotalCalls == Sum(calls, Threads)

Running(t, line) == proc = "running" /\ pc[t] = line

\* a thread of the host calls uname(p), p pointing to a structure not yet written
Call(t, p) ==
    /\ Running(t, "idle")
    /\ TotalCalls < MaxCalls
    /\ calls' = [calls EXCEPT ![t] = @ + 1]
    /\ name' = [name EXCEPT ![t] = p]
    /\ mem' = [mem EXCEPT ![t] = Garbage]
    /\ handle' = [handle EXCEPT ![t] = NULL]
    /\ result' = [result EXCEPT ![t] = 0]
    /\ obs' = [obs EXCEPT ![t] = [NoObs EXCEPT !.resolved = obs[t].resolved]]
    /\ pc' = [pc EXCEPT ![t] = "L13"]
    /\ UNCHANGED <<cp, pair, APPLE, libcOpens, symFound, openHandles, queried, original, depth, stdout,
                   stderr, proc, exitStatus, dlopenCalls, dlsymCalls, stored, ptrsUsed>>

\* a guard that never trusts the cache: every invocation resolves again
SlotIsNullAlways == TRUE

\* the condition of line 13: original == NULL
SlotIsNull == original = NULL

\* line 13: if(original == NULL), and the #ifdef __APPLE__ of line 15
CheckSlot(t) ==
    /\ Running(t, "L13")
    /\ pc' = [pc EXCEPT ![t] =
                IF SlotIsNull THEN (IF APPLE THEN "L23" ELSE "L37") ELSE "L48"]
    /\ obs' = [obs EXCEPT ![t].seenSet = (original # NULL)]
    /\ UNCHANGED <<cp, pair, APPLE, libcOpens, symFound, openHandles, queried, original, name, handle,
                   result, mem, calls, depth, stdout, stderr, proc, exitStatus,
                   dlopenCalls, dlsymCalls, stored, ptrsUsed>>

\* line 23: void *handle = dlopen("libc.dylib", RTLD_NOW);
OpenLibrary(t) ==
    /\ Running(t, "L23")
    /\ handle' = [handle EXCEPT ![t] = Dlopen]
    /\ dlopenCalls' = dlopenCalls + 1
    /\ openHandles' = IF Dlopen = NULL THEN openHandles ELSE openHandles + 1
    /\ pc' = [pc EXCEPT ![t] = "L26"]
    /\ UNCHANGED <<cp, pair, APPLE, libcOpens, symFound, queried, original, name, result,
                   mem, calls, depth, stdout, stderr, proc, exitStatus,
                   dlsymCalls, stored, ptrsUsed, obs>>

\* a lookup through the default handle, under either convention
LookupHandleDefault(t) == RTLD_DEFAULT

\* the handle handed to dlsym(): line 26 (the opened library) or line 37 (RTLD_NEXT)
LookupHandle(t) == IF APPLE THEN handle[t] ELSE RTLD_NEXT

\* a resolver that hands every caller a thunk of its own instead of the symbol
ResolvedValueThunk(t) ==
    IF Dlsym(LookupHandle(t), FUNC) = NULL THEN NULL ELSE "thunk" \o ToString(t)

\* the value lines 26 and 37 assign: (func_t)dlsym(<handle>, __func__)
ResolvedValue(t) == Dlsym(LookupHandle(t), FUNC)

\* lines 26 and 37: original = (func_t)dlsym(<handle>, __func__);
Resolve(t) ==
    /\ proc = "running" /\ pc[t] \in {"L26", "L37"}
    /\ original' = ResolvedValue(t)
    /\ stored' = stored \cup {ResolvedValue(t)}
    /\ queried' = queried \cup {LookupHandle(t)}
    /\ dlsymCalls' = dlsymCalls + 1
    /\ obs' = [obs EXCEPT ![t].resolved = @ + 1,
                          ![t].gotNull = (ResolvedValue(t) = NULL)]
    /\ pc' = [pc EXCEPT ![t] = "L40"]
    /\ UNCHANGED <<cp, pair, APPLE, libcOpens, symFound, openHandles, name, handle, result,
                   mem, calls, depth, stdout, stderr, proc, exitStatus,
                   dlopenCalls, ptrsUsed>>

\* a check that never sees the failure
ResolutionFailedNever == FALSE

\* the condition of line 40: original == NULL
ResolutionFailed == original = NULL

\* line 40: if(original == NULL)
CheckResolved(t) ==
    /\ Running(t, "L40")
    /\ pc' = [pc EXCEPT ![t] = IF ResolutionFailed THEN "L42" ELSE "L48"]
    /\ UNCHANGED <<cp, pair, APPLE, libcOpens, symFound, openHandles, queried, original, name, handle,
                   result, mem, calls, depth, stdout, stderr, proc, exitStatus,
                   dlopenCalls, dlsymCalls, stored, ptrsUsed, obs>>

\* a diagnostic that omits the function's name
ErrorLineNoName(func) == "ERROR: Failed to locate original function; exiting"

\* the text printf() produces for the format of line 42
ErrorLine(func) == "ERROR: Failed to locate original " \o func \o "() function; exiting"

\* line 42: printf("ERROR: Failed to locate original %s() function; exiting\n", __func__);
PrintError(t) ==
    /\ Running(t, "L42")
    /\ stdout' = Append(stdout, ErrorLine(FUNC))
    /\ pc' = [pc EXCEPT ![t] = "L43"]
    /\ UNCHANGED <<cp, pair, APPLE, libcOpens, symFound, openHandles, queried, original, name, handle,
                   result, mem, calls, depth, stderr, proc, exitStatus,
                   dlopenCalls, dlsymCalls, stored, ptrsUsed, obs>>

\* the status handed to exit() on line 43
ExitCode == 1

\* line 43: exit(1);
Exit(t) ==
    /\ Running(t, "L43")
    /\ proc' = "exited"
    /\ exitStatus' = <<ExitCode>>
    /\ UNCHANGED <<cp, pair, APPLE, libcOpens, symFound, openHandles, queried, original, pc, name, handle,
                   result, mem, calls, depth, stdout, stderr, dlopenCalls,
                   dlsymCalls, stored, ptrsUsed, obs>>

\* a delegated call that passes a null pointer instead of the caller's
DelegatedArgNull(t) == NULL

\* the argument handed to the original on line 48
DelegatedArg(t) == name[t]

(* line 48: int result = original(name);  The slot is read here.  Through   *)
(* the system's pointer the original runs to completion; through the        *)
(* interposer's own address the call re-enters uname() until the stack is   *)
(* exhausted; through null, or any address that is no function, the call    *)
(* faults.                                                                  *)
Delegate(t) ==
    /\ Running(t, "L48")
    /\ ptrsUsed' = ptrsUsed \cup {original}
    /\ LET p == original
           a == DelegatedArg(t)
       IN IF p = LIBC_UNAME
          THEN \E o \in OriginalOutcomes(mem[t]) :
                 /\ result' = [result EXCEPT ![t] = o.status]
                 /\ mem' = [mem EXCEPT ![t] = o.out]
                 /\ obs' = [obs EXCEPT ![t].ptr = p, ![t].arg = a,
                                       ![t].delegated = @ + 1,
                                       ![t].cleanAtCall = (mem[t] = Garbage),
                                       ![t].ostatus = o.status, ![t].omem = o.out]
                 /\ pc' = [pc EXCEPT ![t] = "L51"]
                 /\ UNCHANGED <<depth, proc>>
          ELSE IF p = INTERPOSER /\ depth[t] < MaxDepth
          THEN /\ depth' = [depth EXCEPT ![t] = @ + 1]
               /\ obs' = [obs EXCEPT ![t].ptr = p, ![t].arg = a,
                                     ![t].delegated = @ + 1]
               /\ pc' = [pc EXCEPT ![t] = "L13"]
               /\ UNCHANGED <<result, mem, proc>>
          ELSE /\ proc' = "crashed"
               /\ obs' = [obs EXCEPT ![t].ptr = p, ![t].arg = a]
               /\ UNCHANGED <<result, mem, depth, pc>>
    /\ UNCHANGED <<cp, pair, APPLE, libcOpens, symFound, openHandles, queried, original, name, handle,
                   calls, stdout, stderr, exitStatus, dlopenCalls, dlsymCalls,
                   stored>>

\* a copy bounded by the literal's length: no terminator is written
CopyBoundStrlen == Len(JOHNNY5)

\* the number of bytes strncpy() is given on line 67: sizeof(name->version)
CopyBound == SYS_NAMELEN

\* a hook that rewrites the version whatever the status
MutatedAlways(s, r) ==
    [s EXCEPT !.version = Strncpy(s.version, JOHNNY5, CopyBound)]

\* a copy bounded by the size of two fields: the zero fill runs on into machine
MutatedSpill(s, r) ==
    IF r = 0
    THEN [s EXCEPT !.version = Strncpy(s.version, JOHNNY5, SYS_NAMELEN),
                   !.machine = Strncpy(s.machine, <<>>, SYS_NAMELEN)]
    ELSE s

\* the structure after lines 51-68, given the status of the delegated call
Mutated(s, r) ==
    IF r = 0
    THEN [s EXCEPT !.version = Strncpy(s.version, JOHNNY5, CopyBound)]
    ELSE s

\* lines 51-68: if(result == 0) strncpy(name->version, "Johnny 5", sizeof(name->version));
Mutate(t) ==
    /\ Running(t, "L51")
    /\ mem' = [mem EXCEPT ![t] = Mutated(mem[t], result[t])]
    /\ pc' = [pc EXCEPT ![t] = "L71"]
    /\ UNCHANGED <<cp, pair, APPLE, libcOpens, symFound, openHandles, queried, original, name, handle,
                   result, calls, depth, stdout, stderr, proc, exitStatus,
                   dlopenCalls, dlsymCalls, stored, ptrsUsed, obs>>

\* a return value normalised to -1 / 0
ReturnedNormalised(t) == IF result[t] = 0 THEN 0 ELSE -1

\* the value returned on line 71
Returned(t) == result[t]

\* line 71: return result;
Return(t) ==
    /\ Running(t, "L71")
    /\ obs' = [obs EXCEPT ![t].ret = Returned(t), ![t].returned = TRUE]
    /\ pc' = [pc EXCEPT ![t] = "idle"]
    /\ UNCHANGED <<cp, pair, APPLE, libcOpens, symFound, openHandles, queried, original, name, handle,
                   result, mem, calls, depth, stdout, stderr, proc, exitStatus,
                   dlopenCalls, dlsymCalls, stored, ptrsUsed>>

Next ==
    \E t \in Threads :
        \/ Call(t, BufPtr(t))
        \/ CheckSlot(t)
        \/ OpenLibrary(t)
        \/ Resolve(t)
        \/ CheckResolved(t)
        \/ PrintError(t)
        \/ Exit(t)
        \/ Delegate(t)
        \/ Mutate(t)
        \/ Return(t)

Spec == Init /\ [][Next]_vars

\* the steps of thread t inside uname(): lines 13 to 71
InUname(t) ==
    \/ CheckSlot(t)
    \/ OpenLibrary(t)
    \/ Resolve(t)
    \/ CheckResolved(t)
    \/ PrintError(t)
    \/ Exit(t)
    \/ Delegate(t)
    \/ Mutate(t)
    \/ Return(t)

(* A thread that is inside uname() keeps being scheduled, and the loader    *)
(* calls, printf() and the original all return: uname() is straight-line    *)
(* code that takes no lock and waits for nothing.  Nothing obliges a        *)
(* thread to call uname() again.                                            *)
FairSpec == Spec /\ \A t \in Threads : WF_vars(InUname(t))

(* ------------------ the copy on a field of any capacity ---------------- *)

\* the bytes that follow the version field in memory
Guard == <<204, 204>>

\* a version field of capacity c holding a string of k bytes, and what follows it
RegionOf(c, k) ==
    [i \in 1 .. c |-> IF i <= k THEN 86 ELSE IF i = k + 1 THEN 0 ELSE 170] \o Guard

\* sizeof(name->version) when the field has capacity c
SizeofVersion(c) == c

(* The original has succeeded and left a terminated string of k < c bytes   *)
(* in a version field of capacity c.                                        *)
InitCopy ==
    /\ APPLE = FALSE /\ libcOpens = TRUE /\ symFound = TRUE
    /\ Loaded
    /\ pair = NoPair
    /\ \E c \in 1 .. MaxCap : \E k \in 0 .. c - 1 :
          cp = [cap |-> c, before |-> RegionOf(c, k), region |-> RegionOf(c, k),
                done |-> FALSE]

\* line 67 on that field: strncpy(name->version, "Johnny 5", sizeof(name->version));
CopyStep ==
    /\ ~cp.done
    /\ cp' = [cp EXCEPT !.region = Strncpy(cp.region, JOHNNY5, SizeofVersion(cp.cap)),
                        !.done = TRUE]
    /\ UNCHANGED <<pair, APPLE, libcOpens, symFound, original, pc, name, handle,
                   result, mem, calls, depth, stdout, stderr, proc, exitStatus,
                   dlopenCalls, dlsymCalls, openHandles, queried, stored,
                   ptrsUsed, obs>>

NextCopy == CopyStep

SpecCopy == InitCopy /\ [][NextCopy]_vars

(* --------------- the two builds side by side, one caller --------------- *)

\* the two builds: without and with __APPLE__ defined
Builds == BOOLEAN

\* a build's process as loaded, seen from outside
BuildInit == [slot |-> NULL, alive |-> "running", rets |-> <<>>, mem |-> Garbage,
              delegated |-> 0, out |-> <<>>, exit |-> <<>>]

\* a build of convention B that never opens the library
SeqHandleNoOpen(apple) == IF apple THEN NULL ELSE RTLD_NEXT

\* lines 23 and 37: the handle the build passes to dlsym
SeqHandle(apple) == IF apple THEN Dlopen ELSE RTLD_NEXT

\* lines 13-38: the slot after the resolution block
SeqResolve(apple, slot) ==
    IF slot = NULL THEN Dlsym(SeqHandle(apple), FUNC) ELSE slot

(* lines 13-71 run by one thread without interruption in a build whose      *)
(* process is b, on a fresh structure, the system's uname answering o       *)
SeqUname(apple, b, o) ==
    LET slot == SeqResolve(apple, b.slot)
    IN IF slot = NULL
       THEN [b EXCEPT !.out = Append(@, ErrorLine(FUNC)), !.exit = <<ExitCode>>,
                      !.alive = "exited", !.mem = Garbage]
       ELSE IF slot = LIBC_UNAME
       THEN [b EXCEPT !.slot = slot, !.delegated = @ + 1,
                      !.rets = Append(@, o.status),
                      !.mem = Mutated(o.out, o.status)]
       ELSE [b EXCEPT !.slot = slot, !.alive = "crashed", !.mem = Garbage]

\* both builds are loaded on hosts whose loaders and uname behave alike
InitPair ==
    /\ APPLE = FALSE
    /\ libcOpens \in BOOLEAN
    /\ symFound \in BOOLEAN
    /\ Loaded
    /\ cp = NoCopy
    /\ pair = [n |-> 0, st |-> [b \in Builds |-> BuildInit]]

\* the caller makes its next call in both builds; the system's uname answers alike
PairCall ==
    /\ pair.n < MaxPairCalls
    /\ \E b \in Builds : pair.st[b].alive = "running"
    /\ \E o \in OriginalOutcomes(Garbage) :
          pair' = [n |-> pair.n + 1,
                   st |-> [b \in Builds |->
                             IF pair.st[b].alive = "running"
                             THEN SeqUname(b, pair.st[b], o)
                             ELSE pair.st[b]]]
    /\ UNCHANGED <<cp, APPLE, libcOpens, symFound, original, pc, name, handle,
                   result, mem, calls, depth, stdout, stderr, proc, exitStatus,
                   dlopenCalls, dlsymCalls, openHandles, queried, stored,
                   ptrsUsed, obs>>

NextPair == PairCall

SpecPair == InitPair /\ [][NextPair]_vars

(* ------------------------------ properties ----------------------------- *)

\* the threads that have called uname() so far
Callers == {t \in Threads : calls[t] > 0}

\* thread t has returned from an invocation of uname() and not yet called again
HasReturned(t) == pc[t] = "idle" /\ obs[t].returned

\* in thread t's current invocation the original has returned
OriginalReturned(t) == obs[t].delegated >= 1

\* the interposer's text for the failure, as the format of line 42 expands
ExpectedErrorLine == "ERROR: Failed to locate original uname() function; exiting"

(* C1: transparency on failure.  Once the original has returned a non-zero   *)
(* status in an invocation, the caller's structure stays exactly as the      *)
(* original left it for the rest of the invocation, and the value the        *)
(* invocation returns is that same status.                                   *)
C1_TransparentOnFailure ==
    \A t \in Threads :
        (OriginalReturned(t) /\ obs[t].ostatus # 0) =>
            /\ mem[t] = obs[t].omem
            /\ obs[t].returned => obs[t].ret = obs[t].ostatus

\* a failed delegated call that had written part of the structure has returned
C1_Witness ==
    \E t \in Threads :
        /\ HasReturned(t) /\ obs[t].ostatus = 1 /\ obs[t].ret = 1
        /\ mem[t].sysname = DarwinRec.sysname /\ mem[t].version = Garbage.version

(* C2: mutation on success.  After an invocation whose delegated call        *)
(* returned zero, the version field holds the eight bytes of "Johnny 5" at   *)
(* its start, a zero byte right after them, and still has its capacity.      *)
C2_MutationOnSuccess ==
    \A t \in Threads :
        (HasReturned(t) /\ obs[t].ostatus = 0) =>
            /\ Len(mem[t].version) = SYS_NAMELEN
            /\ Len(JOHNNY5) + 1 <= SYS_NAMELEN
            /\ \A i \in 1 .. Len(JOHNNY5) : mem[t].version[i] = JOHNNY5[i]
            /\ mem[t].version[Len(JOHNNY5) + 1] = 0

\* a successful call whose original version string was longer than the literal
C2_Witness ==
    \E t \in Threads :
        /\ HasReturned(t) /\ obs[t].ostatus = 0
        /\ obs[t].omem.version = DarwinRec.version
        /\ mem[t].version[1] = 74

(* C3: other fields untouched.  After an invocation whose delegated call     *)
(* returned zero, sysname, nodename, release and machine are byte for byte   *)
(* what the original wrote.                                                  *)
C3_OtherFieldsUntouched ==
    \A t \in Threads :
        (HasReturned(t) /\ obs[t].ostatus = 0) =>
            \A f \in Fields \ {"version"} : mem[t][f] = obs[t].omem[f]

\* a successful call has returned with a rewritten version and the original machine
C3_Witness ==
    \E t \in Threads :
        /\ HasReturned(t) /\ obs[t].ostatus = 0
        /\ mem[t].version # obs[t].omem.version
        /\ mem[t].machine = ShortRec.machine

(* C4: no self-recursion.  Under either convention and whatever the loader   *)
(* calls return, a non-null slot holds the address of the system library's   *)
(* uname() and never the interposer's own address.                           *)
C4_NoSelfRecursion ==
    /\ original # NULL => (original = LIBC_UNAME /\ original # INTERPOSER)
    /\ INTERPOSER \notin ptrsUsed

\* under the explicit-open convention the slot has been filled and called through
C4_Witness ==
    /\ APPLE /\ dlopenCalls >= 1 /\ original = LIBC_UNAME
    /\ LIBC_UNAME \in ptrsUsed

C6_Original ==
    original # NULL => (dlsymCalls <= 1 /\ dlopenCalls <= 1)

(* C6 amended: in a run in which resolution succeeds, each calling thread    *)
(* performs the resolution at most once, so dlsym() and dlopen() are called  *)
(* at most once per calling thread, and an invocation that finds the slot    *)
(* non-null on line 13 performs none.                                        *)
C6_AtMostOncePerThread ==
    original # NULL =>
        /\ \A t \in Threads : obs[t].resolved <= 1
        /\ dlsymCalls = Sum([t \in Threads |-> obs[t].resolved], Threads)
        /\ dlsymCalls <= Cardinality(Callers)
        /\ dlopenCalls <= Cardinality(Callers)
        /\ \A t \in Threads :
              (obs[t].seenSet /\ pc[t] # "L13") => pc[t] \notin {"L23", "L26", "L37", "L40"}

\* two threads have both resolved, and both have returned successfully
C6_Witness ==
    /\ dlsymCalls = 2 /\ original = LIBC_UNAME
    /\ \A t \in 1 .. 2 : HasReturned(t) /\ obs[t].ret = 0

\* the host lets the resolution succeed
Resolvable == symFound /\ (APPLE => libcOpens)

(* C7: sequential caching.  While a single thread t is the only caller and   *)
(* the resolution succeeds, the resolver has run exactly once as soon as     *)
(* the first call is past it and never again, every later call finds the     *)
(* slot non-null and goes straight to the delegated call, and all calls go   *)
(* through the same pointer.                                                 *)
C7_SequentialCaching ==
    \A t \in Threads :
        (Callers = {t} /\ Resolvable) =>
            /\ dlsymCalls <= 1
            /\ dlopenCalls = (IF APPLE /\ (dlsymCalls = 1 \/ pc[t] = "L26") THEN 1 ELSE 0)
            /\ (original # NULL) <=> (dlsymCalls = 1)
            /\ pc[t] \notin {"L13", "L23", "L26", "L37"} => dlsymCalls = 1
            /\ calls[t] >= 2 /\ pc[t] # "L13" =>
                   obs[t].seenSet /\ pc[t] \in {"L48", "L51", "L71", "idle"}
            /\ calls[t] >= 2 => dlsymCalls = 1
            /\ Cardinality(ptrsUsed) <= 1
            /\ ptrsUsed \subseteq {original}

\* one thread has made two calls; the second skipped the resolver and returned
C7_Witness ==
    \E t \in Threads :
        /\ Callers = {t} /\ calls[t] = 2 /\ HasReturned(t) /\ obs[t].ret = 0
        /\ obs[t].seenSet /\ dlsymCalls = 1 /\ ptrsUsed = {LIBC_UNAME}

(* C8: benign first-resolution race.  Under every interleaving all values    *)
(* stored into the slot are one and the same pointer, and every pointer a    *)
(* thread has called through equals the pointer the slot holds from then on  *)
(* to the end of the run.                                                    *)
C8_BenignRace ==
    /\ Cardinality(stored) <= 1
    /\ \A p \in ptrsUsed : p = original
    /\ \A t \in Threads : obs[t].ptr # None => obs[t].ptr = original

\* two threads both found the slot null, both stored, and both delegated
C8_Witness ==
    /\ dlsymCalls = 2
    /\ \A t \in 1 .. 2 : obs[t].resolved = 1 /\ obs[t].ptr = LIBC_UNAME
    /\ original = LIBC_UNAME

(* C9: one-way slot lifecycle.  The slot starts null, and no step takes a    *)
(* non-null slot to null or to another pointer.                              *)
C9_OneWaySlot ==
    /\ original = NULL
    /\ [][original # NULL => original' = original]_vars

\* the slot was non-null when a second store hit it, and it has been called through
C9_Witness ==
    /\ original = LIBC_UNAME /\ dlsymCalls = 2 /\ stored = {LIBC_UNAME}
    /\ \E t \in Threads : pc[t] = "L40" /\ obs[t].resolved = 1

(* C10: status pass-through.  The integer an invocation returns is the       *)
(* status the original returned in that invocation, zero or not.             *)
C10_StatusPassThrough ==
    \A t \in Threads :
        obs[t].returned => (OriginalReturned(t) /\ obs[t].ret = obs[t].ostatus)

\* one thread has returned zero and another a non-zero status other than -1
C10_Witness ==
    \E t, u \in Threads :
        /\ HasReturned(t) /\ obs[t].ret = 0 /\ obs[t].ostatus = 0
        /\ HasReturned(u) /\ obs[u].ret = 1 /\ obs[u].ostatus = 1

\* no thread is inside uname()
BetweenCalls == \A t \in Threads : pc[t] = "idle"

(* C11: no retained resources.  Whenever no invocation is in progress, no    *)
(* library handle obtained from dlopen() during an invocation is still       *)
(* held: the slot is the only thing the interposer keeps between calls.      *)
C11_NoRetainedResources ==
    BetweenCalls => openHandles = 0

(* C14: convention B lookup handle.  Under the explicit-open convention      *)
(* every dlsym() is given the handle a successful dlopen() of the system     *)
(* library returned, and no dlsym() is made when the library could not be    *)
(* opened.                                                                   *)
C14_LookupOnlyInOpenedLibrary ==
    APPLE =>
        /\ queried \subseteq {LIBC_HANDLE}
        /\ ~libcOpens => dlsymCalls = 0

(* C16: delegation protocol order.  An invocation that has returned has      *)
(* entered the original exactly once, with the pointer its caller passed,    *)
(* through a non-null slot, at a moment when the interposer had written      *)
(* nothing to the structure; and as long as an invocation has not entered    *)
(* the original the structure is as the caller passed it.                    *)
C16_DelegationOrder ==
    \A t \in Threads :
        /\ obs[t].returned =>
              /\ obs[t].delegated = 1
              /\ obs[t].arg = name[t] /\ obs[t].arg = BufPtr(t)
              /\ obs[t].ptr = LIBC_UNAME /\ obs[t].ptr # NULL
              /\ obs[t].cleanAtCall
        /\ (calls[t] > 0 /\ obs[t].delegated = 0) => mem[t] = Garbage
        /\ obs[t].delegated <= 1
        /\ mem[t] # obs[t].omem => (obs[t].delegated = 1 /\ pc[t] \in {"L71", "idle"})

\* a successful invocation has returned: delegated once, version rewritten afterwards
C16_Witness ==
    \E t \in Threads :
        /\ HasReturned(t) /\ obs[t].delegated = 1 /\ obs[t].ostatus = 0
        /\ obs[t].cleanAtCall /\ mem[t].version # obs[t].omem.version

(* C17: never delegates through null.  Under every interleaving the pointer  *)
(* read on line 48 is non-null and the call never faults; and an invocation  *)
(* whose own resolution returned null goes on to the failure branch only:    *)
(* it never enters the original and never writes the structure.              *)
C17_NeverThroughNull ==
    /\ NULL \notin ptrsUsed
    /\ proc # "crashed"
    /\ \A t \in Threads :
          /\ obs[t].ptr # NULL
          /\ pc[t] = "L48" => original # NULL
          /\ obs[t].gotNull =>
                /\ pc[t] \in {"L40", "L42", "L43"}
                /\ obs[t].delegated = 0
                /\ mem[t] = Garbage

\* two threads both resolved to null; one printed and ended the process
C17_Witness ==
    /\ proc = "exited"
    /\ \A t \in 1 .. 2 : obs[t].gotNull /\ obs[t].delegated = 0
    /\ \E t \in 1 .. 2 : pc[t] = "L40"

(* C13: every call terminates one of two ways.  Under either convention and  *)
(* whatever the loader calls return, no invocation ever re-enters the        *)
(* interposer or faults, and every invocation in progress eventually has     *)
(* returned to its caller or the process has ended through exit().           *)
C13_EveryCallTerminates ==
    /\ [](\A t \in Threads : depth[t] = 0 /\ obs[t].ptr # INTERPOSER)
    /\ [](proc # "crashed")
    /\ \A t \in Threads :
          (pc[t] # "idle") ~> (HasReturned(t) \/ (proc = "exited" /\ exitStatus = <<ExitCode>>))

\* under the explicit-open convention an invocation resolved, delegated and returned
C13_Witness ==
    \E t \in Threads :
        APPLE /\ HasReturned(t) /\ obs[t].resolved = 1 /\ depth[t] = 0

(* C15: bounded, terminated copy for any capacity.  For every capacity c of  *)
(* the version field, c >= 1, the copy of line 67 leaves the bytes after     *)
(* the field as they were, and afterwards the field holds a zero byte at     *)
(* some index below c.                                                       *)
C15_BoundedTerminatedCopy ==
    cp.done =>
        /\ Len(cp.region) = cp.cap + Len(Guard)
        /\ \A i \in cp.cap + 1 .. Len(cp.region) : cp.region[i] = cp.before[i]
        /\ \E i \in 1 .. cp.cap : cp.region[i] = 0

=============================================================================
